---- MODULE Spec2Model ----
(***************************************************************************)
(* A model of dattool.py: measurement_h_v_dict, gapfill_series and         *)
(* resample_ecoflux_met.  The three functions are stateless; one call is   *)
(* one action.  Strings are sequences of one-character strings, so that    *)
(* split, count, substring search and concatenation are computed.  The     *)
(* pandas objects a call touches live in a heap addressed by object        *)
(* identity, so that a copy and an alias are different things.             *)
(***************************************************************************)
EXTENDS Integers, Sequences, FiniteSets, TLC

VARIABLES
    pc,     \* "idle" before the call, "done" after it
    fn,     \* the function called
    args,   \* the arguments as they were when the call was made
    heap,   \* the caller's objects after the call (the inputs, by identity)
    ret     \* the outcome: a returned value or a raised exception

vars == <<pc, fn, args, heap, ret>>

(***************************************************************************)
(* Bounds of the model.                                                    *)
(***************************************************************************)
MaxCols == 3        \* longest column-name list given to measurement_h_v_dict
MaxLen == 2         \* longest series given to gapfill_series
MaxSumCols == 2     \* longest sum_cols list given to resample_ecoflux_met

(***************************************************************************)
(* Python strings and lists.                                               *)
(***************************************************************************)
SeqsUpTo(S, n) == UNION {[1..k -> S] : k \in 0..n}

\* str.count(ch) for a one-character ch
RECURSIVE Count(_, _)
Count(s, ch) ==
    IF s = <<>> THEN 0
    ELSE (IF Head(s) = ch THEN 1 ELSE 0) + Count(Tail(s), ch)

\* sub in s
Contains(sub, s) ==
    \E i \in 0..(Len(s) - Len(sub)) : SubSeq(s, i + 1, i + Len(sub)) = sub

\* s.split(ch): the pieces between the separators, empty pieces kept
RECURSIVE SplitFrom(_, _, _)
SplitFrom(s, ch, cur) ==
    IF s = <<>> THEN <<cur>>
    ELSE IF Head(s) = ch THEN <<cur>> \o SplitFrom(Tail(s), ch, <<>>)
    ELSE SplitFrom(Tail(s), ch, Append(cur, Head(s)))

Split(s, ch) == SplitFrom(s, ch, <<>>)

Range(xs) == {xs[i] : i \in 1..Len(xs)}

US == <<"_">>

(***************************************************************************)
(* Outcomes of a call.                                                     *)
(***************************************************************************)
Returned(v) == [raised |-> FALSE, value |-> v]
Raised(e, l) == [raised |-> TRUE, exc |-> e, line |-> l]

(***************************************************************************)
(* measurement_h_v_dict                                                    *)
(***************************************************************************)
NoExclude == [none |-> TRUE]
Exclude(s) == [none |-> FALSE, s |-> s]

\* the filter of the two list comprehensions at lines 21-25
MeasFilter(c, meas, str_exclude) ==
    IF ~str_exclude.none
    THEN Contains(meas \o US, c) /\ ~Contains(str_exclude.s, c)
    ELSE Contains(meas \o US, c)

MeasCols(cols, meas, str_exclude) ==
    SelectSeq(cols, LAMBDA c : MeasFilter(c, meas, str_exclude))

\* positions of the horizontal and the vertical token (0-indexed, as in Python)
HorizPosFixed(meas) == 1

HorizPos(meas) == 1 + Count(meas, "_")

VertPos(meas) == 2 + Count(meas, "_")

\* n.split('_')[k] exists
HasToken(n, k) == k < Len(Split(n, "_"))

Token(n, k) == Split(n, "_")[k + 1]

\* the loop of lines 30-31: append vert[i] to the list of horiz[i]'s key
RECURSIVE FillDict(_, _, _, _, _)
FillDict(d, meas, horiz, vert, i) ==
    IF i > Len(horiz) THEN d
    ELSE LET k == meas \o US \o horiz[i]
         IN FillDict([d EXCEPT ![k] = Append(@, vert[i])], meas, horiz, vert, i + 1)

\* the same call with short columns dropped instead of failing
measurement_h_v_dict_dropshort(cols, meas, str_exclude) ==
    LET meas_cols == SelectSeq(MeasCols(cols, meas, str_exclude),
                               LAMBDA n : HasToken(n, VertPos(meas)))
        horiz == [i \in 1..Len(meas_cols) |-> Token(meas_cols[i], HorizPos(meas))]
        vert == [i \in 1..Len(meas_cols) |-> Token(meas_cols[i], VertPos(meas))]
        empty == [k \in {meas \o US \o p : p \in Range(horiz)} |-> <<>>]
    IN Returned(FillDict(empty, meas, horiz, vert, 1))

measurement_h_v_dict(cols, meas, str_exclude) ==
    LET meas_cols == MeasCols(cols, meas, str_exclude)
    IN IF \E i \in 1..Len(meas_cols) : ~HasToken(meas_cols[i], HorizPos(meas))
       THEN Raised("IndexError", 26)
       ELSE IF \E i \in 1..Len(meas_cols) : ~HasToken(meas_cols[i], VertPos(meas))
       THEN Raised("IndexError", 27)
       ELSE LET horiz == [i \in 1..Len(meas_cols) |-> Token(meas_cols[i], HorizPos(meas))]
                vert == [i \in 1..Len(meas_cols) |-> Token(meas_cols[i], VertPos(meas))]
                empty == [k \in {meas \o US \o p : p \in Range(horiz)} |-> <<>>]
            IN Returned(FillDict(empty, meas, horiz, vert, 1))

\* column names and measurement types the calls are made with
TA == <<"T", "A">>
SW == <<"S", "W">>
SW_IN == <<"S", "W", "_", "I", "N">>
TA_1_1_1 == <<"T", "A", "_", "1", "_", "1", "_", "1">>
TA_1_2_1 == <<"T", "A", "_", "1", "_", "2", "_", "1">>
TA_2_1_1 == <<"T", "A", "_", "2", "_", "1", "_", "1">>
TA_1 == <<"T", "A", "_", "1">>
TA_2 == <<"T", "A", "_", "2">>
SW_IN_1_1_1 == <<"S", "W", "_", "I", "N", "_", "1", "_", "1", "_", "1">>
SW_IN_1 == <<"S", "W", "_", "I", "N", "_", "1">>

ColNames == {TA_1_1_1, TA_1_2_1, TA_2_1_1, TA_1, SW_IN_1_1_1, SW_IN_1}
MeasTypes == {TA, SW, SW_IN}
Excludes == {NoExclude, Exclude(<<"2">>), Exclude(<<"I", "N">>), Exclude(<<>>)}

CallMeasurement ==
    /\ pc = "idle"
    /\ \E cols \in SeqsUpTo(ColNames, MaxCols), meas \in MeasTypes,
          str_exclude \in Excludes :
         /\ args' = [cols |-> cols, meas |-> meas, str_exclude |-> str_exclude]
         /\ heap' = [cols |-> cols]
         /\ ret' = measurement_h_v_dict(cols, meas, str_exclude)
    /\ fn' = "measurement_h_v_dict"
    /\ pc' = "done"

(***************************************************************************)
(* Values, objects and the heap.                                           *)
(*                                                                         *)
(* A number is a fraction <<numerator, denominator>> in lowest terms, so   *)
(* that a mean is exact; NaN is <<0, 0>>.  A Series is a name, an index    *)
(* and a reference to the block holding its values; a DataFrame is its     *)
(* column labels, its index and one reference per column.  Objects and     *)
(* blocks are heap entries, addressed by identity.                         *)
(***************************************************************************)
NaN == <<0, 0>>
Num(n) == <<n, 1>>
IsNan(v) == v = NaN
Values == {NaN, Num(1), Num(2)}

Alloc(h, id, obj) == [x \in (DOMAIN h) \cup {id} |-> IF x = id THEN obj ELSE h[x]]

Restrict(h, ids) == [x \in ids |-> h[x]]

ColRef(blk, pos) == [blk |-> blk, pos |-> pos]

\* the values a column reference points at
Deref(h, ref) == h[ref.blk][ref.pos]

\* the table a DataFrame object denotes: labels, index and the columns' values
Materialize(h, id) ==
    [columns |-> h[id].columns,
     index |-> h[id].index,
     data |-> [j \in 1..Len(h[id].cols) |-> Deref(h, h[id].cols[j])]]

(***************************************************************************)
(* gapfill_series                                                          *)
(***************************************************************************)
\* Series.copy(deep=False): a new object on the same block
SeriesCopyShallow(h, src, dst) ==
    Alloc(h, dst, [h[src] EXCEPT !.ref = h[src].ref])

\* Series.copy(): a new object on a new block holding the same values
SeriesCopy(h, src, dst) ==
    LET h1 == Alloc(h, dst \o <<"values">>, <<Deref(h, h[src].ref)>>)
    IN Alloc(h1, dst, [h[src] EXCEPT !.ref = ColRef(dst \o <<"values">>, 1)])

\* pd.DataFrame(series): a one-column frame on the series' block
DataFrameOfSeries(h, src, dst) ==
    Alloc(h, dst, [columns |-> <<h[src].name>>,
                   index |-> h[src].index,
                   cols |-> <<h[src].ref>>])

\* an index comparison that looks at the lengths only
IndexEqualsLen(a, b) == Len(a) = Len(b)

\* Index.equals: same elements in the same order
IndexEquals(a, b) == a = b

\* the mask of the positions that are not missing
IsNanMaskInverted(vals) == [i \in 1..Len(vals) |-> ~IsNan(vals[i])]

\* np.isnan(series): the boolean mask of the missing positions
IsNanMask(vals) == [i \in 1..Len(vals) |-> IsNan(vals[i])]

\* series[mask]: the values at the positions the mask selects, in order
RECURSIVE BoolIndex(_, _)
BoolIndex(vals, mask) ==
    IF vals = <<>> THEN <<>>
    ELSE (IF Head(mask) THEN <<Head(vals)>> ELSE <<>>)
         \o BoolIndex(Tail(vals), Tail(mask))

\* how many of the first i positions the mask selects
RECURSIVE Rank(_, _)
Rank(mask, i) ==
    IF i = 0 THEN 0 ELSE (IF mask[i] THEN 1 ELSE 0) + Rank(mask, i - 1)

\* one column after frame.loc[mask, columns] = rhs
MaskedWrite(vals, mask, rhs) ==
    [i \in 1..Len(vals) |-> IF mask[i] THEN rhs[Rank(mask, i)] ELSE vals[i]]

\* frame.loc[mask, frame.columns] = rhs, written into the blocks of the frame
RECURSIVE LocAssignFrom(_, _, _, _, _)
LocAssignFrom(h, id, mask, rhs, j) ==
    IF j > Len(h[id].cols) THEN h
    ELSE LET r == h[id].cols[j]
             h1 == [h EXCEPT ![r.blk][r.pos] = MaskedWrite(@, mask, rhs)]
         IN LocAssignFrom(h1, id, mask, rhs, j + 1)

\* the fill that ignores the filler and leaves the gaps
LocAssignNothing(h, id, mask, rhs) == h

LocAssign(h, id, mask, rhs) == LocAssignFrom(h, id, mask, rhs, 1)

\* frame[label] = vals: a new column on a new block
SetItem(h, id, label, vals) ==
    LET blk == id \o <<"item">> \o label
        h1 == Alloc(h, blk, <<vals>>)
    IN [h1 EXCEPT ![id].columns = Append(@, label),
                  ![id].cols = Append(@, ColRef(blk, 1))]

GF == <<"_", "g", "f">>
FLAG == <<"F", "L", "A", "G">>

gapfill_series(h, s_withgaps, s_gapfiller) ==
    LET h1 == SeriesCopy(h, s_withgaps, <<"copy">>)
        h2 == DataFrameOfSeries(h1, <<"copy">>, <<"s_filled">>)
    IN IF IndexEquals(h2[s_withgaps].index, h2[s_gapfiller].index)
       THEN LET gapfill == IsNanMask(Deref(h2, h2[s_withgaps].ref))
                h3 == [h2 EXCEPT ![<<"s_filled">>].columns = <<@[1] \o GF>>]
                h4 == LocAssign(h3, <<"s_filled">>, gapfill,
                                BoolIndex(Deref(h3, h3[s_gapfiller].ref), gapfill))
                h5 == SetItem(h4, <<"s_filled">>,
                              h4[<<"s_filled">>].columns[1] \o FLAG, gapfill)
            IN [h |-> h5, ret |-> Returned(Materialize(h5, <<"s_filled">>))]
       ELSE [h |-> h2, ret |-> Returned(Materialize(h2, <<"s_filled">>))]

\* the series the calls are made with: distinct index labels in any order
Indexes == {ix \in SeqsUpTo(0..(MaxLen - 1), MaxLen) :
               \A i, j \in 1..Len(ix) : ix[i] = ix[j] => i = j}

SeriesNames == {TA, SW}

SeriesHeap(id, name, index, vals) ==
    (id :> [name |-> name, index |-> index, ref |-> ColRef(id \o <<"values">>, 1)])
    @@ ((id \o <<"values">>) :> <<vals>>)

CallGapfill ==
    /\ pc = "idle"
    /\ \E name \in SeriesNames, ix1 \in Indexes, ix2 \in Indexes :
         \E v1 \in [1..Len(ix1) -> Values], v2 \in [1..Len(ix2) -> Values] :
           LET h0 == SeriesHeap(<<"s_withgaps">>, name, ix1, v1)
                     @@ SeriesHeap(<<"s_gapfiller">>, SW_IN, ix2, v2)
               out == gapfill_series(h0, <<"s_withgaps">>, <<"s_gapfiller">>)
           IN /\ args' = [h |-> h0]
              /\ heap' = Restrict(out.h, DOMAIN h0)
              /\ ret' = out.ret
    /\ fn' = "gapfill_series"
    /\ pc' = "done"

(***************************************************************************)
(* resample_ecoflux_met                                                    *)
(***************************************************************************)
\* a column label: a string, or an integer (shown by its digits)
StrLabel(s) == [t |-> "str", v |-> s]
IntLabel(s) == [t |-> "int", v |-> s]

SUM == <<"_", "s", "u", "m">>
AVG == <<"_", "a", "v", "g">>
MIN == <<"_", "m", "i", "n">>
MAX == <<"_", "m", "a", "x">>

\* i + '_sum' is defined for a string i only
CanAdd(label) == label.t = "str"
Add(label, suffix) == StrLabel(label.v \o suffix)

HasLabel(h, id, label) == \E j \in 1..Len(h[id].columns) : h[id].columns[j] = label

\* the first column with this label
Pos(columns, label) ==
    CHOOSE j \in 1..Len(columns) :
        /\ columns[j] = label
        /\ \A k \in 1..(j - 1) : columns[k] # label

\* df[labels] for labels of df: a new frame on a new block, columns in list order
GetItem(h, src, labels, dst) ==
    LET blk == dst \o <<"values">>
        data == [j \in 1..Len(labels) |->
                    Deref(h, h[src].cols[Pos(h[src].columns, labels[j])])]
        h1 == Alloc(h, blk, data)
    IN Alloc(h1, dst, [columns |-> labels,
                       index |-> h[src].index,
                       dt |-> h[src].dt,
                       cols |-> [j \in 1..Len(labels) |-> ColRef(blk, j)]])

RECURSIVE GCD(_, _)
GCD(a, b) == IF b = 0 THEN a ELSE GCD(b, a % b)

Frac(n, d) == <<n \div GCD(n, d), d \div GCD(n, d)>>

\* the values that are not missing
NotNan(vs) == SelectSeq(vs, LAMBDA v : ~IsNan(v))

RECURSIVE Total(_)
Total(vs) == IF vs = <<>> THEN 0 ELSE Head(vs)[1] + Total(Tail(vs))

\* the aggregations of one bucket of one column; the inputs are whole numbers
SumAgg(vs) == Num(Total(NotNan(vs)))

MeanAgg(vs) ==
    IF NotNan(vs) = <<>> THEN NaN ELSE Frac(Total(NotNan(vs)), Len(NotNan(vs)))

MinAgg(vs) ==
    IF NotNan(vs) = <<>> THEN NaN
    ELSE CHOOSE v \in Range(NotNan(vs)) : \A w \in Range(NotNan(vs)) : v[1] <= w[1]

MaxAgg(vs) ==
    IF NotNan(vs) = <<>> THEN NaN
    ELSE CHOOSE v \in Range(NotNan(vs)) : \A w \in Range(NotNan(vs)) : v[1] >= w[1]

\* .sum(), .mean(), .min(), .max() of one bucket of one column
Aggregate(how, vs) ==
    CASE how = "sum" -> SumAgg(vs)
      [] how = "mean" -> MeanAgg(vs)
      [] how = "min" -> MinAgg(vs)
      [] how = "max" -> MaxAgg(vs)

\* the buckets of width freq from the first time stamp's to the last one's
Buckets(index, freq) ==
    IF index = <<>> THEN <<>>
    ELSE LET lo == index[1] \div freq
             hi == index[Len(index)] \div freq
         IN [k \in 1..(hi - lo + 1) |-> (lo + k - 1) * freq]

\* the rows of a column that fall in the bucket starting at b
InBucket(index, vals, freq, b) ==
    LET rows == SelectSeq([i \in 1..Len(index) |-> i],
                          LAMBDA i : (index[i] \div freq) * freq = b)
    IN [k \in 1..Len(rows) |-> vals[rows[k]]]

\* frame.resample(freq).how(): a new frame on the bucketed index
Resample(h, src, dst, freq, how) ==
    LET blk == dst \o <<"values">>
        bk == Buckets(h[src].index, freq)
        data == [j \in 1..Len(h[src].cols) |->
                    [k \in 1..Len(bk) |->
                        Aggregate(how, InBucket(h[src].index, Deref(h, h[src].cols[j]),
                                                freq, bk[k]))]]
        h1 == Alloc(h, blk, data)
    IN Alloc(h1, dst, [columns |-> h[src].columns,
                       index |-> bk,
                       dt |-> TRUE,
                       cols |-> [j \in 1..Len(data) |-> ColRef(blk, j)]])

\* frame.rename(columns={old: new}, inplace=True)
Rename(h, id, old, new) ==
    [h EXCEPT ![id].columns = [j \in 1..Len(@) |-> IF @[j] = old THEN new ELSE @[j]]]

\* for i in labels: frame.rename(columns={i: i + suffix}, inplace=True),
\* up to the first label that is no string
RECURSIVE RenameLoop(_, _, _, _)
RenameLoop(h, id, labels, suffix) ==
    IF labels = <<>> THEN [h |-> h, ok |-> TRUE]
    ELSE IF ~CanAdd(Head(labels)) THEN [h |-> h, ok |-> FALSE]
    ELSE RenameLoop(Rename(h, id, Head(labels), Add(Head(labels), suffix)),
                    id, Tail(labels), suffix)

\* pd.DataFrame(index=index): a frame without columns
EmptyFrame(h, dst, index) ==
    Alloc(h, dst, [columns |-> <<>>, index |-> index, dt |-> TRUE, cols |-> <<>>])

\* an except clause that replaces the average table only
ExceptAvgOnly(h) ==
    EmptyFrame(h, <<"avg_resamp">>, h[<<"sums_resamp">>].index)

\* the except clause, lines 113-117
Except(h) ==
    LET h1 == EmptyFrame(h, <<"avg_resamp">>, h[<<"sums_resamp">>].index)
        h2 == EmptyFrame(h1, <<"min_resamp">>, h[<<"sums_resamp">>].index)
    IN EmptyFrame(h2, <<"max_resamp">>, h[<<"sums_resamp">>].index)

\* the body of the try, lines 96-112: the heap it leaves, and whether it raised
Try(h, freq, avg_cols, min_cols, max_cols) ==
    LET h1 == Resample(h, <<"df_avg">>, <<"avg_resamp">>, freq, "mean")
        h2 == Resample(h1, <<"df_min">>, <<"min_resamp">>, freq, "min")
        h3 == Resample(h2, <<"df_max">>, <<"max_resamp">>, freq, "max")
        r1 == RenameLoop(h3, <<"avg_resamp">>, avg_cols, AVG)
        r2 == RenameLoop(r1.h, <<"min_resamp">>, min_cols, MIN)
        r3 == RenameLoop(r2.h, <<"max_resamp">>, max_cols, MAX)
    IN IF ~r1.ok THEN [h |-> r1.h, ok |-> FALSE]
       ELSE IF ~r2.ok THEN [h |-> r2.h, ok |-> FALSE]
       ELSE r3

\* pd.concat(frames, axis=1) of frames on one index
Concat(h, ids) ==
    [columns |-> Materialize(h, ids[1]).columns \o Materialize(h, ids[2]).columns
                 \o Materialize(h, ids[3]).columns \o Materialize(h, ids[4]).columns,
     index |-> h[ids[1]].index,
     data |-> Materialize(h, ids[1]).data \o Materialize(h, ids[2]).data
              \o Materialize(h, ids[3]).data \o Materialize(h, ids[4]).data]

Missing(h, df, labels) == \E j \in 1..Len(labels) : ~HasLabel(h, df, labels[j])

resample_ecoflux_met(h, df, freq, avg_cols, min_cols, max_cols, sum_cols) ==
    IF Missing(h, df, sum_cols) THEN [h |-> h, ret |-> Raised("KeyError", 86)]
    ELSE IF Missing(h, df, avg_cols) THEN [h |-> h, ret |-> Raised("KeyError", 88)]
    ELSE IF Missing(h, df, min_cols) THEN [h |-> h, ret |-> Raised("KeyError", 89)]
    ELSE IF Missing(h, df, max_cols) THEN [h |-> h, ret |-> Raised("KeyError", 90)]
    ELSE IF ~h[df].dt THEN [h |-> h, ret |-> Raised("TypeError", 93)]
    ELSE
    LET h1 == GetItem(h, df, sum_cols, <<"df_sum">>)
        h2 == GetItem(h1, df, avg_cols, <<"df_avg">>)
        h3 == GetItem(h2, df, min_cols, <<"df_min">>)
        h4 == GetItem(h3, df, max_cols, <<"df_max">>)
        h5 == Resample(h4, <<"df_sum">>, <<"sums_resamp">>, freq, "sum")
        try == Try(h5, freq, avg_cols, min_cols, max_cols)
        h6 == IF try.ok THEN try.h ELSE Except(try.h)
        r == RenameLoop(h6, <<"sums_resamp">>, sum_cols, SUM)
    IN IF ~r.ok THEN [h |-> r.h, ret |-> Raised("TypeError", 121)]
       ELSE [h |-> r.h,
             ret |-> [raised |-> FALSE,
                      caught |-> ~try.ok,
                      value |-> Concat(r.h, << <<"sums_resamp">>, <<"avg_resamp">>,
                                              <<"min_resamp">>, <<"max_resamp">> >>)]]

\* the tables and the column lists the calls are made with
X == StrLabel(<<"X">>)
X_sum == StrLabel(<<"X", "_", "s", "u", "m">>)
L1 == IntLabel(<<"1">>)
Labels == {X, X_sum, L1}
LabelOrder == <<X, X_sum, L1>>

\* the column lists of a table: one or two of the labels
ColumnSets == {SelectSeq(LabelOrder, LAMBDA l : l \in S) :
                  S \in {T \in SUBSET Labels : Cardinality(T) \in {1, 2}}}

\* a time index in half days, with and without an empty day; a plain integer
\* index is no time index
Shapes == {[index |-> <<0, 1, 2>>, dt |-> TRUE],
           [index |-> <<0, 1, 4>>, dt |-> TRUE],
           [index |-> <<0, 1, 2>>, dt |-> FALSE]}

Patterns == {<<Num(1), Num(1), Num(1)>>, <<Num(1), Num(2), NaN>>, <<NaN, NaN, Num(2)>>}

Day == 2

FrameHeap(id, columns, shape, data) ==
    (id :> [columns |-> columns, index |-> shape.index, dt |-> shape.dt,
            cols |-> [j \in 1..Len(columns) |-> ColRef(id \o <<"values">>, j)]])
    @@ ((id \o <<"values">>) :> data)

CallResample ==
    /\ pc = "idle"
    /\ \E columns \in ColumnSets, shape \in Shapes :
         \E data \in [1..Len(columns) -> Patterns],
            sum_cols \in SeqsUpTo(Labels, MaxSumCols),
            avg_cols \in SeqsUpTo(Labels, 1),
            min_cols \in SeqsUpTo(Labels, 1),
            max_cols \in SeqsUpTo(Labels, 1) :
           LET h0 == FrameHeap(<<"df">>, columns, shape, data)
               out == resample_ecoflux_met(h0, <<"df">>, Day, avg_cols, min_cols,
                                           max_cols, sum_cols)
           IN /\ args' = [h |-> h0, freq |-> Day, avg_cols |-> avg_cols,
                          min_cols |-> min_cols, max_cols |-> max_cols,
                          sum_cols |-> sum_cols]
              /\ heap' = Restrict(out.h, DOMAIN h0)
              /\ ret' = out.ret
    /\ fn' = "resample_ecoflux_met"
    /\ pc' = "done"

Init ==
    /\ pc = "idle"
    /\ fn = "none"
    /\ args = <<>>
    /\ heap = <<>>
    /\ ret = <<>>

Next ==
    \/ CallMeasurement
    \/ CallGapfill
    \/ CallResample

Spec == Init /\ [][Next]_vars

(***************************************************************************)
(* What the claims are stated over: the arguments of the call made.        *)
(***************************************************************************)
Called(f) == pc = "done" /\ fn = f

WithGaps == args.h[<<"s_withgaps">>]
Filler == args.h[<<"s_gapfiller">>]
WithGapsValues == Deref(args.h, WithGaps.ref)
FillerValues == Deref(args.h, Filler.ref)

Df == args.h[<<"df">>]
InDf(labels) == \A j \in 1..Len(labels) : labels[j] \in Range(Df.columns)
AllStr(labels) == \A j \in 1..Len(labels) : labels[j].t = "str"
DfColumn(label) == Deref(args.h, Df.cols[Pos(Df.columns, label)])
EndsWith(s, suffix) ==
    Len(s) >= Len(suffix) /\ SubSeq(s, Len(s) - Len(suffix) + 1, Len(s)) = suffix
NoDuplicates(xs) == \A i, j \in 1..Len(xs) : xs[i] = xs[j] => i = j
\* the per-bucket aggregate of an input column, bucket by bucket
PerBucket(label, how) ==
    [k \in 1..Len(Buckets(Df.index, args.freq)) |->
        Aggregate(how, InBucket(Df.index, DfColumn(label), args.freq,
                                Buckets(Df.index, args.freq)[k]))]
NamedColumns(label) == {j \in 1..Len(ret.value.columns) : ret.value.columns[j] = label}

\* a column passes the measurement filter
Considered(c) ==
    /\ Contains(args.meas \o <<"_">>, c)
    /\ args.str_exclude.none \/ ~Contains(args.str_exclude.s, c)
Underscores == Count(args.meas, "_")
Tokens(c) == Split(c, "_")
KeyOf(c) == args.meas \o <<"_">> \o Tokens(c)[2 + Underscores]
ConsideredCols == SelectSeq(args.cols, Considered)
ColsOfKey(k) == SelectSeq(ConsideredCols, LAMBDA c : KeyOf(c) = k)

(***************************************************************************)
(* C1: gapfill_series on series with equal indices returns the columns     *)
(* {name}_gf and {name}_gfFLAG; the _gf column holds the filler's value    *)
(* where the with-gaps series is missing and the original value elsewhere, *)
(* and the flag is true exactly at the originally missing positions.       *)
(***************************************************************************)
C1_GapsFilledAndFlagged ==
    (Called("gapfill_series") /\ WithGaps.index = Filler.index) =>
        /\ ~ret.raised
        /\ ret.value.columns = <<WithGaps.name \o GF, WithGaps.name \o GF \o FLAG>>
        /\ ret.value.index = WithGaps.index
        /\ Len(ret.value.data[1]) = Len(WithGapsValues)
        /\ Len(ret.value.data[2]) = Len(WithGapsValues)
        /\ \A i \in 1..Len(WithGapsValues) :
             /\ IsNan(WithGapsValues[i]) => ret.value.data[1][i] = FillerValues[i]
             /\ ~IsNan(WithGapsValues[i]) => ret.value.data[1][i] = WithGapsValues[i]
             /\ ret.value.data[2][i] <=> IsNan(WithGapsValues[i])

C1_Witness ==
    /\ Called("gapfill_series")
    /\ WithGaps.index = Filler.index
    /\ \E i, j \in 1..Len(WithGapsValues) :
         /\ IsNan(WithGapsValues[i]) /\ ~IsNan(FillerValues[i])
         /\ ret.value.data[1][i] = FillerValues[i]
         /\ ~IsNan(WithGapsValues[j]) /\ FillerValues[j] # WithGapsValues[j]

(***************************************************************************)
(* C2: gapfill_series on series whose indices differ (elements, order or   *)
(* length) raises nothing and returns a table holding only the unmodified  *)
(* with-gaps series under its original name: no _gf and no _gfFLAG column. *)
(***************************************************************************)
C2_MismatchReturnsOriginal ==
    (Called("gapfill_series") /\ WithGaps.index # Filler.index) =>
        /\ ~ret.raised
        /\ ret.value.columns = <<WithGaps.name>>
        /\ ret.value.index = WithGaps.index
        /\ ret.value.data = <<WithGapsValues>>

C2_Witness ==
    /\ Called("gapfill_series")
    /\ Len(WithGaps.index) = Len(Filler.index)
    /\ Range(WithGaps.index) = Range(Filler.index)
    /\ WithGaps.index # Filler.index
    /\ \E i \in 1..Len(WithGapsValues) : IsNan(WithGapsValues[i])
    /\ ret.value.columns = <<WithGaps.name>>

(***************************************************************************)
(* C3: resample_ecoflux_met, when every sum column exists in the table and *)
(* the avg, min or max list names a column that does not, does not raise   *)
(* and returns the _sum column of every sum column.                        *)
(***************************************************************************)
C3_MissingNonSumColumnsTolerated ==
    (/\ Called("resample_ecoflux_met")
     /\ Df.dt /\ InDf(args.sum_cols) /\ AllStr(args.sum_cols)
     /\ args.sum_cols # <<>>
     /\ ~(InDf(args.avg_cols) /\ InDf(args.min_cols) /\ InDf(args.max_cols))) =>
        /\ ~ret.raised
        /\ \A j \in 1..Len(args.sum_cols) :
             Add(args.sum_cols[j], SUM) \in Range(ret.value.columns)

(***************************************************************************)
(* C4: resample_ecoflux_met names every output column by its input name    *)
(* with the suffix of its aggregation appended once, so the output names   *)
(* are exactly the sum names + _sum, the avg names + _avg, the min names + *)
(* _min and the max names + _max, whatever names the lists hold.           *)
(***************************************************************************)
C4_SuffixAppendedOnce ==
    (Called("resample_ecoflux_met") /\ ~ret.raised /\ ~ret.caught) =>
        Range(ret.value.columns) =
            {Add(c, SUM) : c \in Range(args.sum_cols)}
            \cup {Add(c, AVG) : c \in Range(args.avg_cols)}
            \cup {Add(c, MIN) : c \in Range(args.min_cols)}
            \cup {Add(c, MAX) : c \in Range(args.max_cols)}

(***************************************************************************)
(* C5: a column listed in the sum list and in the avg list comes out under *)
(* the two names {col}_sum and {col}_avg, once each, holding per bucket    *)
(* the sum and the arithmetic mean of the column's values in the bucket.   *)
(***************************************************************************)
C5_SumAndAvgOfOneColumn ==
    (/\ Called("resample_ecoflux_met") /\ ~ret.raised /\ ~ret.caught
     /\ NoDuplicates(args.sum_cols) /\ NoDuplicates(args.avg_cols)) =>
        \A c \in Range(args.sum_cols) \cap Range(args.avg_cols) :
            /\ Cardinality(NamedColumns(Add(c, SUM))) = 1
            /\ Cardinality(NamedColumns(Add(c, AVG))) = 1
            /\ \A j \in NamedColumns(Add(c, SUM)) :
                 ret.value.data[j] = PerBucket(c, "sum")
            /\ \A j \in NamedColumns(Add(c, AVG)) :
                 ret.value.data[j] = PerBucket(c, "mean")

(***************************************************************************)
(* C6: measurement_h_v_dict returns a map whose keys are {meas}_{h} for    *)
(* the horizontal tokens h (index 1+u) of the considered columns, each key *)
(* holding the vertical tokens (index 2+u) of the considered columns with  *)
(* that horizontal token, in column order, duplicates kept; the other      *)
(* columns add nothing.  TA_1_1_1, TA_1_2_1, TA_2_1_1 with meas TA give    *)
(* {TA_1: [1, 2], TA_2: [1]}.                                              *)
(***************************************************************************)
C6_LocationMap ==
    (Called("measurement_h_v_dict") /\ ~ret.raised) =>
        /\ DOMAIN ret.value = {KeyOf(c) : c \in Range(ConsideredCols)}
        /\ \A k \in DOMAIN ret.value :
             ret.value[k] = [i \in 1..Len(ColsOfKey(k)) |->
                                Tokens(ColsOfKey(k)[i])[3 + Underscores]]
        /\ (/\ args.cols = <<TA_1_1_1, TA_1_2_1, TA_2_1_1>>
            /\ args.meas = TA
            /\ args.str_exclude = NoExclude) =>
               ret.value = (TA_1 :> << <<"1">>, <<"2">> >>) @@ (TA_2 :> << <<"1">> >>)

C6_Witness ==
    /\ Called("measurement_h_v_dict")
    /\ args.cols = <<SW_IN_1_1_1, TA_1_2_1, SW_IN_1_1_1>>
    /\ args.meas = SW_IN
    /\ args.str_exclude = Exclude(<<"2">>)
    /\ ~ret.raised
    /\ ret.value = (SW_IN_1 :> << <<"1">>, <<"1">> >>)

(***************************************************************************)
(* C7: measurement_h_v_dict fails with an IndexError, returning no map,    *)
(* exactly when a considered column has fewer than 3+u tokens; a column    *)
(* that does not pass the filter never makes the call fail.                *)
(***************************************************************************)
C7_ShortColumnRaises ==
    Called("measurement_h_v_dict") =>
        /\ ret.raised <=>
             \E i \in 1..Len(args.cols) :
                 /\ Considered(args.cols[i])
                 /\ Len(Tokens(args.cols[i])) < 3 + Underscores
        /\ ret.raised => ret.exc = "IndexError"

C7_Witness ==
    /\ Called("measurement_h_v_dict")
    /\ args.cols = <<TA_1_1_1, TA_1, SW_IN_1>>
    /\ args.meas = TA
    /\ ret.raised

(***************************************************************************)
(* C8: with equal indices and no missing value in the with-gaps series,    *)
(* the _gf column equals the with-gaps series at every position, whatever  *)
(* the filler holds, and the flag column is false at every position.       *)
(***************************************************************************)
C8_RoundTrip ==
    (/\ Called("gapfill_series")
     /\ WithGaps.index = Filler.index
     /\ \A i \in 1..Len(WithGapsValues) : ~IsNan(WithGapsValues[i])) =>
        /\ ~ret.raised
        /\ ret.value.data[1] = WithGapsValues
        /\ ret.value.data[2] = [i \in 1..Len(WithGapsValues) |-> FALSE]

C8_Witness ==
    /\ Called("gapfill_series")
    /\ WithGaps.index = Filler.index
    /\ Len(WithGapsValues) >= 2
    /\ \A i \in 1..Len(WithGapsValues) : ~IsNan(WithGapsValues[i])
    /\ \E i \in 1..Len(FillerValues) : IsNan(FillerValues[i])
    /\ \E i \in 1..Len(FillerValues) : FillerValues[i] = Num(2) /\ WithGapsValues[i] = Num(1)
    /\ ret.value.data[1] = WithGapsValues

(***************************************************************************)
(* C9: no function changes its inputs: after a call, on every path, the    *)
(* objects passed in (the two series, the table, the column list) hold the *)
(* names, indices and values they held before it.                          *)
(***************************************************************************)
C9_InputsUnchanged ==
    /\ Called("gapfill_series") => \A id \in DOMAIN args.h : heap[id] = args.h[id]
    /\ Called("resample_ecoflux_met") => \A id \in DOMAIN args.h : heap[id] = args.h[id]
    /\ Called("measurement_h_v_dict") => heap.cols = args.cols

C9_Witness ==
    /\ Called("gapfill_series")
    /\ WithGaps.index = Filler.index
    /\ ret.value.data[1] # WithGapsValues
    /\ Deref(heap, heap[<<"s_withgaps">>].ref) = WithGapsValues

(***************************************************************************)
(* C10: when a step of the avg, min and max aggregation and renaming       *)
(* raises, all three tables are replaced by tables without columns and the *)
(* output holds the sum columns only; an error of the sum selection,       *)
(* aggregation or renaming is not caught and the call raises.              *)
(***************************************************************************)
C10_AllOrNothingFallback ==
    Called("resample_ecoflux_met") =>
        LET reachesTry == /\ InDf(args.sum_cols) /\ InDf(args.avg_cols)
                          /\ InDf(args.min_cols) /\ InDf(args.max_cols)
                          /\ Df.dt
            nonSumRaises == ~(/\ AllStr(args.avg_cols) /\ AllStr(args.min_cols)
                              /\ AllStr(args.max_cols))
            sumRaises == \/ ~InDf(args.sum_cols)
                         \/ ~Df.dt
                         \/ ~AllStr(args.sum_cols)
            onlySums ==
                /\ Len(ret.value.columns) = Len(args.sum_cols)
                /\ ret.value.index = Buckets(Df.index, args.freq)
                /\ \A j \in 1..Len(args.sum_cols) :
                     /\ EndsWith(ret.value.columns[j].v, SUM)
                     /\ ret.value.data[j] = PerBucket(args.sum_cols[j], "sum")
        IN /\ (reachesTry /\ nonSumRaises /\ ~sumRaises) =>
                 (~ret.raised /\ ret.caught /\ onlySums)
           /\ (~ret.raised /\ ret.caught) => (nonSumRaises /\ onlySums)
           /\ sumRaises => (ret.raised /\ ret.line \in {86, 88, 89, 90, 93, 121})
           /\ (~InDf(args.sum_cols)) => (ret.raised /\ ret.line = 86)
           /\ (reachesTry /\ ~AllStr(args.sum_cols)) => (ret.raised /\ ret.line = 121)

C10_Witness ==
    /\ Called("resample_ecoflux_met")
    /\ args.avg_cols = <<X>>
    /\ args.min_cols = <<X>>
    /\ args.max_cols = <<L1>>
    /\ args.sum_cols = <<X>>
    /\ ~ret.raised
    /\ ret.caught
    /\ ret.value.columns = <<X_sum>>

====
